---------------------------- MODULE Spec2Model ----------------------------
(***************************************************************************)
(* Playback state machine of the music daemon (src/musicd.py).             *)
(*                                                                         *)
(* Three kinds of execution context touch the state:                       *)
(*   - the asyncio event loop, which runs the request handlers, the        *)
(*     player_loop poll task and the play_next tasks, one step (the code   *)
(*     between two awaits) at a time;                                      *)
(*   - the executor's worker thread that runs play_track for a play_next;  *)
(*   - the mpv engine, which loads, plays, finishes or fails a file.       *)
(* A handler that calls search_youtube runs it synchronously on the event  *)
(* loop: while the lookup lasts no other event-loop step runs ("lookup").  *)
(***************************************************************************)
EXTENDS Naturals, Sequences, FiniteSets

(* ------------------------------ bounds -------------------------------- *)

\* Resolved items (successful /play and /queue requests) per behaviour.
MaxItems == 3

\* play_next tasks that may be alive at once.
MaxTasks == 2

(* ------------------------------ values -------------------------------- *)

\* Queries a client may send; "zz" is a query the provider has no match for.
Queries == {"a", "zz"}

TaskIds == 1..MaxTasks

\* Python's None for an Optional[dict] track.
NoItem == [id |-> 0, url |-> ""]

\* No synchronous lookup is running on the event loop.
NoLookup == [op |-> "", query |-> ""]

\* The step responded to no request.
NoResp == [op |-> "", ok |-> TRUE, track |-> NoItem, queue |-> <<>>, history |-> <<>>]

\* A play_next slot that holds no task.
FreeTask == [pc |-> "free", wk |-> "none", item |-> NoItem, skipped |-> FALSE]

\* The engine right after construction, and after player.stop().
EngineIdle == [st |-> "idle", item |-> 0]

VARIABLES
    queue,          \* musicd.queue: pending tracks, head first
    history,        \* musicd.history
    current_track,  \* musicd.current_track
    player_lock,    \* player_lock.locked()
    eng,            \* the mpv player: idle, loading or playing a file
    paused,         \* player.pause
    tasks,          \* the play_next tasks and their play_track workers
    lookup,         \* the handler blocked in search_youtube / search_list
    sleepers,       \* handlers suspended in asyncio.sleep; a sleeping handler
                    \* only answers when it wakes, so the model lets one sleep
                    \* at a time: waking it first reaches the same state
    resp,           \* the response sent by the step just taken
    arrival,        \* history variable: how each item arrived ("play"/"queue")
    dequeueLog,     \* history variable: ids popped by play_next, in order
    playWait,       \* history variable: last /play item still awaiting its pop
    lastStop        \* history variable: the /stop handled since the last enqueue

vars == <<queue, history, current_track, player_lock, eng, paused, tasks,
          lookup, sleepers, resp, arrival, dequeueLog, playWait, lastStop>>

ghost == <<arrival, dequeueLog, playWait, lastStop>>

\* No /stop has been handled since the last enqueue. For a /stop that has,
\* "busy" tells whether it found two tracks queued and a track current with
\* its play_track in flight.
NoStop == [seen |-> FALSE, busy |-> FALSE]

(* ----------------------------- helpers -------------------------------- *)

\* search_youtube: the provider's best match for the query, or None.
search_youtube(query) ==
    IF query = "zz" THEN NoItem
    ELSE [id |-> Len(arrival) + 1, url |-> query]

\* search_list: the matches for a query, possibly none.
search_list(query) ==
    IF query = "zz" THEN <<>> ELSE <<[id |-> 0, url |-> query]>>

\* player.playback_time: None while idle or while the file is still loading.
playback_time == IF eng.st = "playing" THEN 1 ELSE 0

\* player.stop(): the engine drops whatever file it has; pause is untouched.
player_stop == EngineIdle

\* play_track is called on the event loop itself instead of the executor:
\* the loop is also busy while a play_track call is in flight.
LoopFreeInline ==
    /\ lookup = [op |-> "", query |-> ""]
    /\ \A t \in 1..MaxTasks : tasks[t].wk \notin {"dispatched", "waiting"}

\* The event loop is free to run a step (no handler is inside a lookup).
LoopFree == lookup = NoLookup

\* play_next tasks created and not yet finished.
Alive == {t \in TaskIds : tasks[t].pc # "free"}

\* play_track calls handed to the executor and not yet returned or raised.
InFlight == {t \in TaskIds : tasks[t].wk \in {"dispatched", "waiting"}}

\* The task whose dequeued item is the present current_track, marked as
\* told to stop by /next or /play.
MarkSkipped ==
    [t \in TaskIds |->
        IF tasks[t].pc = "running" /\ current_track # NoItem
           /\ tasks[t].item = current_track
        THEN [tasks[t] EXCEPT !.skipped = TRUE]
        ELSE tasks[t]]


\* The lock is not taken at all (play_next without its "async with").
LockNotTaken == FALSE

\* player_lock.locked() once "async with player_lock" has been entered.
LockAcquired == TRUE

\* The head is read but left in the queue.
QueuePeek(q) == q

\* queue.pop(0): what is left of the queue.
QueuePop(q) == Tail(q)

\* The played track is not recorded.
HistorySkip(h, x) == h

\* The played track is put in front of the earlier ones.
HistoryPrepend(h, x) == <<x>> \o h

\* history.append(current_track)
HistoryAppend(h, x) == Append(h, x)

\* The track goes to the back of the queue.
QueueInsertBack(q, x) == Append(q, x)

\* queue.insert(0, track)
QueueInsertFront(q, x) == <<x>> \o q

\* The track goes to the front of the queue.
QueuePrepend(q, x) == <<x>> \o q

\* queue.append(track)
QueueAppend(q, x) == Append(q, x)

\* The queue is left as it is.
QueueKept(q) == q

\* queue.clear()
QueueClear(q) == <<>>

\* The lock stays held when an exception leaves play_next.
HeldOnRaise == TRUE

\* player_lock.locked() once an exception has left "async with player_lock".
ReleasedOnRaise == FALSE

\* The lock stays held when play_next returns on an empty queue.
HeldOnReturn == TRUE

\* player_lock.locked() once the early return has left "async with player_lock".
ReleasedOnReturn == FALSE

\* The pause flag is flipped instead of set.
PauseToggled == ~paused

\* player.pause = True
PauseOn == TRUE

\* The result of the lookup is never taken for a miss.
NeverNotFound(track) == FALSE

\* "if not track": the lookup found nothing.
NotFound(track) == track = NoItem

Init ==
    /\ queue = <<>>
    /\ history = <<>>
    /\ current_track = NoItem
    /\ player_lock = FALSE
    /\ eng = EngineIdle
    /\ paused = FALSE
    /\ tasks = [t \in TaskIds |-> FreeTask]
    /\ lookup = NoLookup
    /\ sleepers = {}
    /\ resp = NoResp
    /\ arrival = <<>>
    /\ dequeueLog = <<>>
    /\ playWait = 0
    /\ lastStop = NoStop


(* ------------------------ the autoplay controller ---------------------- *)

\* player_loop, one iteration: create a play_next task when the engine
\* reports no playback time, the queue is non-empty and the lock is free.
\* The task created by an iteration takes its first step before the
\* iteration's sleep(0.5) ends (the loop runs ready callbacks in order), so
\* an iteration never finds the previous iteration's task still unstarted.
Poll ==
    /\ LoopFree
    /\ \A t \in TaskIds : tasks[t].pc # "spawned"
    /\ resp' = NoResp
    /\ \/ /\ playback_time = 0 /\ queue # <<>> /\ ~player_lock
          /\ \E t \in TaskIds :
                /\ tasks[t].pc = "free"
                /\ \A u \in TaskIds : u < t => tasks[u].pc # "free"
                /\ tasks' = [tasks EXCEPT ![t].pc = "spawned"]
          /\ UNCHANGED <<queue, history, current_track, player_lock, eng,
                         paused, lookup, sleepers, ghost>>
       \/ /\ ~(playback_time = 0 /\ queue # <<>> /\ ~player_lock)
          /\ UNCHANGED <<queue, history, current_track, player_lock, eng,
                         paused, tasks, lookup, sleepers, ghost>>

\* play_next up to its await: take the lock (the task waits while it is
\* held); on an empty queue clear current_track and return, releasing the
\* lock; otherwise pop the head into current_track, append it to history and
\* hand play_track to the executor.
PlayNextStart(t) ==
    /\ LoopFree
    /\ tasks[t].pc = "spawned"
    /\ ~player_lock
    /\ resp' = NoResp
    /\ \/ /\ queue = <<>>
          /\ current_track' = NoItem
          /\ tasks' = [tasks EXCEPT ![t] = FreeTask]
          /\ player_lock' = ReleasedOnReturn
          /\ UNCHANGED <<queue, history, dequeueLog, playWait>>
       \/ /\ queue # <<>>
          /\ current_track' = Head(queue)
          /\ queue' = QueuePop(queue)
          /\ history' = HistoryAppend(history, Head(queue))
          /\ tasks' = [tasks EXCEPT ![t] =
                [pc |-> "running", wk |-> "dispatched",
                 item |-> Head(queue), skipped |-> FALSE]]
          /\ player_lock' = LockAcquired
          /\ dequeueLog' = Append(dequeueLog, Head(queue).id)
          /\ playWait' = IF playWait = Head(queue).id THEN 0 ELSE playWait
    /\ UNCHANGED <<eng, paused, lookup, sleepers, arrival, lastStop>>

\* play_next after its await, play_track having returned: clear
\* current_track and release the lock.
PlayNextResume(t) ==
    /\ LoopFree
    /\ tasks[t].pc = "running"
    /\ tasks[t].wk = "returned"
    /\ current_track' = NoItem
    /\ player_lock' = FALSE
    /\ tasks' = [tasks EXCEPT ![t] = FreeTask]
    /\ resp' = NoResp
    /\ UNCHANGED <<queue, history, eng, paused, lookup, sleepers, ghost>>

\* play_next after its await, play_track having raised: the exception leaves
\* the "async with" block, which releases the lock; line 141 is not reached.
PlayNextRaise(t) ==
    /\ LoopFree
    /\ tasks[t].pc = "running"
    /\ tasks[t].wk = "raised"
    /\ player_lock' = ReleasedOnRaise
    /\ tasks' = [tasks EXCEPT ![t] = FreeTask]
    /\ resp' = NoResp
    /\ UNCHANGED <<queue, history, current_track, eng, paused, lookup,
                   sleepers, ghost>>

(* --------------------- the worker thread and the engine ---------------- *)

\* play_track, first call: player.play(url) replaces the engine's file.
WorkerPlay(t) ==
    /\ tasks[t].wk = "dispatched"
    /\ eng' = [st |-> "starting", item |-> tasks[t].item.id]
    /\ tasks' = [tasks EXCEPT ![t].wk = "waiting"]
    /\ resp' = NoResp
    /\ UNCHANGED <<queue, history, current_track, player_lock, paused,
                   lookup, sleepers, ghost>>

\* play_track, second call: player.wait_for_playback() returns once the
\* engine no longer has the file this worker started (ended, stopped or
\* replaced), also when that happened before the call was entered.
WorkerReturn(t) ==
    /\ tasks[t].wk = "waiting"
    /\ ~(eng.st # "idle" /\ eng.item = tasks[t].item.id)
    /\ tasks' = [tasks EXCEPT ![t].wk = "returned"]
    /\ resp' = NoResp
    /\ UNCHANGED <<queue, history, current_track, player_lock, eng, paused,
                   lookup, sleepers, ghost>>

\* The engine has loaded the file and playback advances past position 0:
\* playback_time becomes truthy.
EngineLoaded ==
    /\ eng.st = "starting"
    /\ ~paused
    /\ eng' = [eng EXCEPT !.st = "playing"]
    /\ resp' = NoResp
    /\ UNCHANGED <<queue, history, current_track, player_lock, paused, tasks,
                   lookup, sleepers, ghost>>

\* The engine cannot play the file: it goes idle and play_track raises in
\* the worker that waits for it.
EngineError ==
    /\ eng.st = "starting"
    /\ eng' = EngineIdle
    /\ tasks' = [t \in TaskIds |->
                    IF tasks[t].wk = "waiting" /\ tasks[t].item.id = eng.item
                    THEN [tasks[t] EXCEPT !.wk = "raised"]
                    ELSE tasks[t]]
    /\ resp' = NoResp
    /\ UNCHANGED <<queue, history, current_track, player_lock, paused,
                   lookup, sleepers, ghost>>

\* The file plays to its end.
EngineFinish ==
    /\ eng.st = "playing"
    /\ ~paused
    /\ eng' = EngineIdle
    /\ resp' = NoResp
    /\ UNCHANGED <<queue, history, current_track, player_lock, paused, tasks,
                   lookup, sleepers, ghost>>


(* --------------------------- request handlers -------------------------- *)

Ok(op) == [NoResp EXCEPT !.op = op]

\* POST /pause
pause ==
    /\ LoopFree
    /\ paused' = PauseOn
    /\ resp' = Ok("pause")
    /\ UNCHANGED <<queue, history, current_track, player_lock, eng, tasks,
                   lookup, sleepers, ghost>>

\* POST /resume
resume ==
    /\ LoopFree
    /\ paused' = FALSE
    /\ resp' = Ok("resume")
    /\ UNCHANGED <<queue, history, current_track, player_lock, eng, tasks,
                   lookup, sleepers, ghost>>

\* POST /stop
stop ==
    /\ LoopFree
    /\ queue' = QueueClear(queue)
    /\ eng' = player_stop
    /\ current_track' = NoItem
    /\ resp' = Ok("stop")
    /\ lastStop' = [seen |-> TRUE,
                    busy |-> /\ Len(queue) = 2
                             /\ current_track # NoItem
                             /\ InFlight # {}]
    /\ playWait' = 0
    /\ UNCHANGED <<history, player_lock, paused, tasks, lookup, sleepers,
                   arrival, dequeueLog>>

\* POST /next up to its return (empty queue) or its sleep(0.5).
next_track ==
    /\ LoopFree
    /\ eng' = player_stop
    /\ tasks' = MarkSkipped
    /\ \/ /\ queue = <<>>
          /\ resp' = Ok("next")
          /\ UNCHANGED sleepers
       \/ /\ queue # <<>>
          /\ sleepers = {}
          /\ sleepers' = sleepers \cup {[op |-> "next", track |-> NoItem]}
          /\ resp' = NoResp
    /\ UNCHANGED <<queue, history, current_track, player_lock, paused,
                   lookup, ghost>>

\* POST /next after its sleep: answer with current_track as it is now.
next_track_return ==
    /\ LoopFree
    /\ [op |-> "next", track |-> NoItem] \in sleepers
    /\ sleepers' = sleepers \ {[op |-> "next", track |-> NoItem]}
    /\ resp' = [Ok("next") EXCEPT !.track = current_track]
    /\ UNCHANGED <<queue, history, current_track, player_lock, eng, paused,
                   tasks, lookup, ghost>>

\* POST /play, POST /queue or POST /search is received: the handler enters
\* its lookup, which runs on the event loop until it returns.
BeginLookup(op, query) ==
    /\ LoopFree
    /\ op \in {"play", "queue"} /\ search_youtube(query) # NoItem
            => Len(arrival) < MaxItems
    /\ op = "play" => sleepers = {}
    /\ lookup' = [op |-> op, query |-> query]
    /\ resp' = NoResp
    /\ UNCHANGED <<queue, history, current_track, player_lock, eng, paused,
                   tasks, sleepers, ghost>>

\* POST /play from the return of search_youtube to the return of the error
\* or to sleep(1).
play ==
    /\ lookup.op = "play"
    /\ lookup' = NoLookup
    /\ LET track == search_youtube(lookup.query) IN
        \/ /\ NotFound(track)
           /\ resp' = [Ok("play") EXCEPT !.ok = FALSE]
           /\ UNCHANGED <<queue, eng, tasks, sleepers, ghost>>
        \/ /\ ~NotFound(track)
           /\ queue' = QueueInsertFront(queue, track)
           /\ eng' = player_stop
           /\ tasks' = MarkSkipped
           /\ sleepers' = sleepers \cup {[op |-> "play", track |-> track]}
           /\ resp' = NoResp
           /\ arrival' = Append(arrival, "play")
           /\ playWait' = track.id
           /\ lastStop' = NoStop
           /\ UNCHANGED dequeueLog
    /\ UNCHANGED <<history, current_track, player_lock, paused>>

\* POST /play after its sleep: answer with the track it resolved.
play_return ==
    /\ LoopFree
    /\ \E s \in sleepers :
        /\ s.op = "play"
        /\ sleepers' = sleepers \ {s}
        /\ resp' = [Ok("play") EXCEPT !.track = s.track]
    /\ UNCHANGED <<queue, history, current_track, player_lock, eng, paused,
                   tasks, lookup, ghost>>

\* POST /queue from the return of search_youtube on.
add_queue ==
    /\ lookup.op = "queue"
    /\ lookup' = NoLookup
    /\ LET track == search_youtube(lookup.query) IN
        \/ /\ NotFound(track)
           /\ resp' = [Ok("queue") EXCEPT !.ok = FALSE]
           /\ UNCHANGED <<queue, ghost>>
        \/ /\ ~NotFound(track)
           /\ queue' = QueueAppend(queue, track)
           /\ resp' = [Ok("queue") EXCEPT !.track = track]
           /\ arrival' = Append(arrival, "queue")
           /\ lastStop' = NoStop
           /\ UNCHANGED <<dequeueLog, playWait>>
    /\ UNCHANGED <<history, current_track, player_lock, eng, paused, tasks,
                   sleepers>>

\* POST /search from the return of search_list on.
search ==
    /\ lookup.op = "search"
    /\ lookup' = NoLookup
    /\ resp' = [Ok("search") EXCEPT !.queue = search_list(lookup.query)]
    /\ UNCHANGED <<queue, history, current_track, player_lock, eng, paused,
                   tasks, sleepers, ghost>>

\* GET /queue
get_queue ==
    /\ LoopFree
    /\ resp' = [Ok("get_queue") EXCEPT !.queue = queue]
    /\ UNCHANGED <<queue, history, current_track, player_lock, eng, paused,
                   tasks, lookup, sleepers, ghost>>

\* GET /status
status ==
    /\ LoopFree
    /\ resp' = [Ok("status") EXCEPT !.track = current_track, !.queue = queue,
                                    !.history = history]
    /\ UNCHANGED <<queue, history, current_track, player_lock, eng, paused,
                   tasks, lookup, sleepers, ghost>>

(* ---------------------------- specification ---------------------------- *)

Next ==
    \/ Poll
    \/ \E t \in TaskIds : PlayNextStart(t)
    \/ \E t \in TaskIds : PlayNextResume(t)
    \/ \E t \in TaskIds : PlayNextRaise(t)
    \/ \E t \in TaskIds : WorkerPlay(t)
    \/ \E t \in TaskIds : WorkerReturn(t)
    \/ EngineLoaded
    \/ EngineError
    \/ EngineFinish
    \/ pause
    \/ resume
    \/ stop
    \/ next_track
    \/ next_track_return
    \/ \E op \in {"play", "queue", "search"}, query \in Queries :
            BeginLookup(op, query)
    \/ play
    \/ play_return
    \/ add_queue
    \/ search
    \/ get_queue
    \/ status

Spec == Init /\ [][Next]_vars

\* The steps of play_next, of its worker thread, and the return of a lookup.
PlayNextStep ==
    \E t \in TaskIds :
        PlayNextStart(t) \/ PlayNextResume(t) \/ PlayNextRaise(t)

WorkerStep == \E t \in TaskIds : WorkerPlay(t) \/ WorkerReturn(t)

LookupReturn == play \/ add_queue \/ search

\* What the runtime guarantees: the event loop runs every ready callback
\* (the poll task every 0.5 s, a play_next task once created or woken), so
\* no handler can starve them for good; a thread handed to the executor
\* runs; a lookup returns.
Fairness ==
    /\ SF_vars(Poll)
    /\ SF_vars(PlayNextStep)
    /\ WF_vars(WorkerStep)
    /\ WF_vars(LookupReturn)

FairSpec == Init /\ [][Next]_vars /\ Fairness


(* ------------------------------- claims -------------------------------- *)

\* Number of places an item id occupies: in the queue or among the pops.
Copies(q, log, id) ==
    Cardinality({i \in 1..Len(q) : q[i].id = id})
        + Cardinality({k \in 1..Len(log) : log[k] = id})

\* Position of an id in a sequence of ids (0 when absent).
Pos(log, id) ==
    IF \E k \in 1..Len(log) : log[k] = id
    THEN CHOOSE k \in 1..Len(log) : log[k] = id
    ELSE 0

QueueIds == [i \in 1..Len(queue) |-> queue[i].id]

\* C1: under every interleaving of requests and the poll loop, at most one
\* play_track call is in flight (handed to the executor, not yet finished).
C1_OneStartInFlight == Cardinality(InFlight) <= 1

\* A start call is in flight after a skip, with the engine reporting no
\* playback time and tracks queued: only the lock holds the poll loop back.
C1_Witness ==
    /\ \E t \in TaskIds : tasks[t].wk = "dispatched" /\ tasks[t].skipped
    /\ queue # <<>>
    /\ playback_time = 0

\* C2: no step other than /stop loses or duplicates an item: a step that
\* changes the queue or the pops leaves every enqueued item in exactly as
\* many places (queue or pops) as before, at most one, and puts a newly
\* enqueued item in the queue once.
C2_NoLossNoDup ==
    [][(resp'.op # "stop" /\ <<queue, dequeueLog>>' # <<queue, dequeueLog>>) =>
        \A id \in 1..Len(arrival') :
            /\ Copies(queue', dequeueLog', id) <= 1
            /\ Copies(queue', dequeueLog', id) =
                    IF id <= Len(arrival)
                    THEN Copies(queue, dequeueLog, id)
                    ELSE 1]_vars

\* Three items were enqueued, two of them popped, one by autoplay after a
\* /next that is still asleep, and every item is in exactly one place.
C2_Witness ==
    /\ Len(arrival) = 3
    /\ Len(dequeueLog) = 2
    /\ \A id \in 1..3 : Copies(queue, dequeueLog, id) = 1
    /\ [op |-> "next", track |-> NoItem] \in sleepers
    /\ current_track # NoItem

\* C3: items appended by successive /queue requests (no /play between them)
\* are popped by play_next in the order they were appended: the earlier one
\* is ahead in the queue, is popped first, and is never still queued once
\* the later one has been popped.
C3_Fifo ==
    \A i, j \in 1..Len(arrival) :
        (i < j /\ \A k \in i..j : arrival[k] = "queue") =>
            /\ (Pos(QueueIds, i) # 0 /\ Pos(QueueIds, j) # 0)
                    => Pos(QueueIds, i) < Pos(QueueIds, j)
            /\ (Pos(dequeueLog, i) # 0 /\ Pos(dequeueLog, j) # 0)
                    => Pos(dequeueLog, i) < Pos(dequeueLog, j)
            /\ Pos(dequeueLog, j) # 0 => Pos(QueueIds, i) = 0

\* Three /queue items were all popped, with a skip among the advances.
C3_Witness ==
    /\ arrival = <<"queue", "queue", "queue">>
    /\ dequeueLog = <<1, 2, 3>>
    /\ \E t \in TaskIds : tasks[t].skipped

\* C4: while the item of the last /play awaits its pop (no later /play or
\* /stop), the next pop by play_next yields that item.
C4_PlayNowIsNext ==
    [][(Len(dequeueLog') = Len(dequeueLog) + 1 /\ playWait # 0)
            => dequeueLog'[Len(dequeueLog')] = playWait]_vars

\* A /play item arrived behind two queued tracks and was popped first.
C4_Witness ==
    /\ arrival = <<"queue", "queue", "play">>
    /\ dequeueLog = <<3>>
    /\ Len(queue) = 2

\* C5: from the /play that inserted X until X becomes Current, the engine
\* plays nothing else, so that the next poll hands X to the engine.
C5_PlayTakesOver == playWait # 0 => eng.st = "idle"

\* C6: every pop whose item is no longer Current has exactly one entry in
\* History.
C6_HistoryOncePerDequeue ==
    \A k \in 1..Len(dequeueLog) :
        current_track.id # dequeueLog[k] =>
            Cardinality({i \in 1..Len(history) : history[i].id = dequeueLog[k]})
                = Cardinality({m \in 1..Len(dequeueLog) :
                                    dequeueLog[m] = dequeueLog[k]})

\* Three items left Current: by a skip, by a stop and by running out.
C6_Witness ==
    /\ Len(dequeueLog) = 3
    /\ current_track = NoItem
    /\ lastStop.seen
    /\ Alive = {}

\* C7: from a /stop until the next enqueue the queue and Current are empty,
\* and a /status answered in that time reports queue [] and now null.
C7_StopEmpties ==
    lastStop.seen =>
        /\ queue = <<>>
        /\ current_track = NoItem
        /\ resp.op = "status" => resp.queue = <<>> /\ resp.track = NoItem

\* /stop found [A, B] queued and C current with its play_next in flight;
\* that play_next has since finished and /status has been answered.
C7_Witness ==
    /\ lastStop.busy
    /\ Alive = {}
    /\ resp.op = "status"

\* C8: from a /stop until the next enqueue the engine plays nothing.
C8_StopSilencesEngine == lastStop.seen => eng.st = "idle"

\* C9: once /next or /play has issued stop for the item that is Current,
\* the engine is not playing that item.
C9_SkipInterrupts ==
    \A t \in TaskIds :
        tasks[t].skipped => ~(eng.st # "idle" /\ eng.item = tasks[t].item.id)

\* C10: a /play or /queue whose lookup finds nothing answers ok:false and
\* leaves queue, Current, History and the engine as they were.
C10_NotFoundChangesNothing ==
    [][(lookup.op \in {"play", "queue"} /\ lookup.query = "zz"
            /\ lookup' = NoLookup)
        => /\ resp'.ok = FALSE
           /\ UNCHANGED <<queue, current_track, history, eng, paused>>]_vars

\* A /play whose lookup found nothing was answered while a track was
\* playing and another was queued.
C10_Witness ==
    /\ resp.op = "play"
    /\ ~resp.ok
    /\ eng.st = "playing"
    /\ queue # <<>>


\* C11: an item whose play_track raised does not stay Current: once no
\* play_next is alive and nothing is queued (so that no later advance will
\* replace it), Current is empty.
C11_FailedItemCleared ==
    (Alive = {} /\ queue = <<>>) => current_track = NoItem


\* C12: when play_track raises, play_next ends with the lock released; no
\* item is popped (handed to the engine) a second time; and while tracks are
\* queued behind the failure, a further pop, which hands its item to the
\* executor in the same step, follows unless a /stop empties the queue.
C12_FailureDoesNotStall ==
    /\ [][\A t \in TaskIds :
            (tasks[t].wk = "raised" /\ tasks'[t].pc = "free")
                => ~player_lock']_vars
    /\ [][Len(dequeueLog') > Len(dequeueLog)
            => Pos(dequeueLog, dequeueLog'[Len(dequeueLog')]) = 0]_vars
    /\ ((\E t \in TaskIds : tasks[t].wk = "raised") /\ queue # <<>>)
            ~> ((\E t \in TaskIds : tasks[t].wk = "dispatched") \/ queue = <<>>)

\* play_track raised for the item that is still Current (only a raise ends
\* play_next without clearing it); the lock is free again and the poll loop
\* has created the play_next that will pop the track queued behind it.
C12_Witness ==
    /\ current_track # NoItem
    /\ \E t \in TaskIds : tasks[t].pc = "spawned"
    /\ InFlight = {}
    /\ ~player_lock
    /\ queue # <<>>


\* C13: while a handler's lookup is in progress, the event loop can still
\* run an iteration of the poll loop and serve /status, /stop and /next.
C13_LookupDoesNotBlock ==
    lookup # NoLookup =>
        /\ ENABLED status
        /\ ENABLED stop
        /\ ENABLED next_track
        /\ (\A t \in TaskIds : tasks[t].pc # "spawned") => ENABLED Poll


\* C14: while a play_track call is blocked in the worker with the engine on
\* its track, the event loop, unless it is inside a lookup, can run a poll
\* iteration and serve every request: none waits for the track to end.
C14_ResponsiveWhilePlaying ==
    ((\E t \in TaskIds : tasks[t].wk = "waiting") /\ eng.st # "idle"
            /\ lookup = NoLookup) =>
        /\ ENABLED Poll
        /\ ENABLED status
        /\ ENABLED get_queue
        /\ ENABLED pause
        /\ ENABLED resume
        /\ ENABLED stop
        /\ ENABLED BeginLookup("queue", "zz")
        /\ sleepers = {} => ENABLED next_track /\ ENABLED BeginLookup("play", "zz")

\* /status was answered while the worker waits for a playing track and
\* another track is queued.
C14_Witness ==
    /\ \E t \in TaskIds : tasks[t].wk = "waiting"
    /\ eng.st = "playing"
    /\ resp.op = "status"
    /\ queue # <<>>


\* C15 as stated: History holds only items already promoted out of Current;
\* the item that is presently Current has no entry in History yet.
C15_CurrentNotYetInHistory ==
    current_track # NoItem =>
        \A i \in 1..Len(history) : history[i] # current_track

\* C15 as amended: History holds only items that play_next has popped into
\* Current, never one that is still queued; the item that is presently
\* Current already has its entry.
C15_HistoryHoldsDequeued ==
    /\ \A i \in 1..Len(history) :
          /\ Pos(dequeueLog, history[i].id) # 0
          /\ Pos(QueueIds, history[i].id) = 0
    /\ current_track # NoItem =>
          \E i \in 1..Len(history) : history[i] = current_track

\* A track is playing as Current after an earlier one left Current, with a
\* third still queued.
C15_Witness ==
    /\ current_track # NoItem
    /\ eng.st = "playing"
    /\ eng.item = current_track.id
    /\ Len(history) = 2
    /\ Len(queue) = 1


\* What the idempotence of an endpoint is judged on.
Observed == <<queue, current_track, history, eng, paused>>

\* The step handles a request of the kind that was answered last.
RepeatsRequest ==
    \E op \in {"pause", "resume", "stop", "get_queue", "status"} :
        resp.op = op /\ resp'.op = op

\* The step handles a /next right after a /next was answered.
RepeatsNext ==
    /\ resp.op = "next"
    /\ \/ resp'.op = "next" /\ sleepers' = sleepers
       \/ [op |-> "next", track |-> NoItem] \in sleepers' \ sleepers

\* C16 as stated: a /pause, /resume, /stop, /next, GET /queue or /status
\* issued right after the same request was answered changes nothing.
C16_AllIdempotent ==
    [][(RepeatsRequest \/ RepeatsNext) => UNCHANGED Observed]_vars

\* C16 as amended: the same, for every endpoint of the list but /next.
C16_IdempotentButNext == [][RepeatsRequest => UNCHANGED Observed]_vars

\* /pause was answered while a track plays, and /pause can be sent again.
C16_Witness ==
    /\ resp.op = "pause"
    /\ paused
    /\ eng.st = "playing"
    /\ queue # <<>>
    /\ ENABLED pause


\* C17: Current becomes a new item only in a step of play_next that removes
\* that item from the head of the queue and holds player_lock; and the engine
\* is started only by the worker thread of a play_next, never by a handler.
C17_OnlyPlayNextSetsCurrent ==
    [][/\ (current_track' # NoItem /\ current_track' # current_track) =>
            /\ queue # <<>>
            /\ current_track' = Head(queue)
            /\ queue' = Tail(queue)
            /\ player_lock'
            /\ \E t \in TaskIds :
                    tasks[t].pc = "spawned" /\ tasks'[t].pc = "running"
       /\ (eng'.st # "idle" /\ eng.st = "idle") =>
            \E t \in TaskIds :
                /\ tasks[t].wk = "dispatched"
                /\ tasks'[t].wk = "waiting"
                /\ eng'.item = tasks[t].item.id]_vars

\* The item of a /play whose handler is still asleep has become Current,
\* popped by play_next, which holds the lock.
C17_Witness ==
    /\ current_track # NoItem
    /\ [op |-> "play", track |-> current_track] \in sleepers
    /\ player_lock
    /\ \E t \in TaskIds : tasks[t].pc = "running" /\ tasks[t].item = current_track


\* C18: whenever the engine is idle, no advance is in flight and the queue is
\* non-empty, the poll loop eventually pops (unless /stop empties the queue
\* first); and every pop takes the head of the queue, records it as Current,
\* appends it to History and hands it to the worker thread in one step, so
\* no handler runs between these assignments.
C18_IdleQueueAdvances ==
    /\ [][Len(dequeueLog') > Len(dequeueLog) =>
            /\ queue # <<>>
            /\ queue' = Tail(queue)
            /\ current_track' = Head(queue)
            /\ history' = Append(history, Head(queue))
            /\ dequeueLog' = Append(dequeueLog, Head(queue).id)
            /\ \E t \in TaskIds :
                    /\ tasks[t].wk = "none"
                    /\ tasks'[t].wk = "dispatched"
                    /\ tasks'[t].item = Head(queue)]_vars
    /\ (eng.st = "idle" /\ Alive = {} /\ queue # <<>>)
            ~> ((\E t \in TaskIds : tasks[t].wk = "dispatched") \/ queue = <<>>)

\* A second advance: after an earlier track ended, the loop popped the next
\* head, which is Current and dispatched while the engine is still idle.
C18_Witness ==
    /\ Len(dequeueLog) >= 2
    /\ eng.st = "idle"
    /\ queue # <<>>
    /\ \E t \in TaskIds :
            /\ tasks[t].wk = "dispatched"
            /\ tasks[t].item = current_track
            /\ ~tasks[t].skipped


\* C19: History is append-only. A step that changes History adds exactly one
\* entry at the end, keeping the previous History as a prefix, and is a pop of
\* play_next, never a step of a request handler (so /stop, /next, /pause,
\* /resume, /play and /queue leave History as it was); and the entries of
\* History are the dequeued items in dequeue order.
C19_HistoryAppendOnly ==
    /\ [][history' # history =>
            /\ Len(history') = Len(history) + 1
            /\ SubSeq(history', 1, Len(history)) = history
            /\ Len(dequeueLog') = Len(dequeueLog) + 1
            /\ resp' = NoResp
            /\ sleepers' = sleepers
            /\ lookup' = lookup]_vars
    /\ [](/\ Len(history) = Len(dequeueLog)
          /\ \A i \in 1..Len(history) : history[i].id = dequeueLog[i])

\* /stop has just cleared the queue and Current; the two tracks played
\* before it are still in History, in the order they were dequeued.
C19_Witness ==
    /\ resp.op = "stop"
    /\ queue = <<>>
    /\ current_track = NoItem
    /\ Len(history) = 2
    /\ history[1].id = dequeueLog[1]
    /\ history[2].id = dequeueLog[2]
    /\ Len(arrival) = MaxItems


\* C20: in every state between two steps of the event loop, which are the
\* states a request handler can read, a non-empty Current is the last entry
\* of a non-empty History.
C20_CurrentIsLastOfHistory ==
    current_track # NoItem =>
        /\ Len(history) > 0
        /\ history[Len(history)] = current_track

\* /status has just answered while the third dequeued track is Current and
\* is the last of three History entries.
C20_Witness ==
    /\ resp.op = "status"
    /\ current_track # NoItem
    /\ Len(history) = 3
    /\ history[3] = current_track
    /\ history[1] # current_track


\* C21: an item that is Current when /stop is handled is in History after
\* the stop: it was appended when it was dequeued, and stop leaves History
\* as it was while it clears Current.
C21_StoppedItemRecorded ==
    [][(resp'.op = "stop" /\ current_track # NoItem) =>
            /\ history' = history
            /\ \E i \in 1..Len(history') : history'[i] = current_track
            /\ current_track' = NoItem]_vars

\* /stop has just been handled while an item was Current and its play_track
\* call was in flight; History holds that item as its only entry.
C21_Witness ==
    /\ resp.op = "stop"
    /\ lastStop.busy
    /\ current_track = NoItem
    /\ Len(history) = 1
    /\ Len(dequeueLog) = 1
    /\ InFlight # {}


\* C22: a play_next spawned by the poll loop that finds the queue empty (it
\* can only have been emptied by /stop in between) sets Current to empty and
\* returns in that same step: the engine is not touched, nothing is
\* dequeued or appended to History, and the lock is free afterwards.
C22_EmptyQueueAfterSpawn ==
    /\ [][\A t \in TaskIds :
            (tasks[t].pc = "spawned" /\ tasks'[t].pc # "spawned"
             /\ queue = <<>>) =>
                /\ current_track' = NoItem
                /\ tasks'[t] = FreeTask
                /\ eng' = eng
                /\ history' = history
                /\ dequeueLog' = dequeueLog
                /\ queue' = <<>>
                /\ ~player_lock']_vars
    /\ []((queue = <<>> /\ \E t \in TaskIds : tasks[t].pc = "spawned")
            => lastStop.seen)

\* /stop has just emptied the queue while a play_next spawned by the poll
\* loop has not run yet; the lock is free, so its next step is the early
\* return.
C22_Witness ==
    /\ resp.op = "stop"
    /\ queue = <<>>
    /\ ~player_lock
    /\ LoopFree
    /\ \E t \in TaskIds : tasks[t].pc = "spawned" /\ ENABLED PlayNextStart(t)

=============================================================================
